---- MODULE Spec2Model ----
(***************************************************************************)
(* Function / method life-cycle instrumentation of python_notes:          *)
(*   src/design/aop.py       Context, register, Advice, method filters    *)
(*   src/tools/life_cycle.py FunctionLifeCycle, method filters            *)
(*                                                                         *)
(* Spec      one wrapped call after another, nested to MaxDepth, stepped   *)
(*           through before / target / returning|throwing / after.        *)
(* SpecBind  class declaration, register_class / register_instance,       *)
(*           subclassing, construction and attribute lookup.              *)
(* SpecMembers  binding a class whose members are of every kind.          *)
(* SpecThreads  calls of two threads through one hook object.             *)
(* SpecHooks    hooks that assign context.result, hook functions that     *)
(*              suspend once, never or twice.                             *)
(* SpecLayers   instance binding of a class and of its subclass, and the  *)
(*              constructor run again on an object.                       *)
(***************************************************************************)
EXTENDS Integers, Sequences, FiniteSets, TLC

VARIABLES
    frames,     \* the wrapped calls in progress, outermost first
    stack,      \* the hook object's own call stack (Tracer.stack)
    classes,    \* the class objects created so far, by class id 1, 2, ...
    objs,       \* the instances constructed so far, by instance id 1, 2, ...
    last        \* what the last binding, construction or method call did

vars == <<frames, stack, classes, objs, last>>

engineVars == <<frames, stack>>
bindVars == <<classes, objs, last>>

-----------------------------------------------------------------------------
(* Bounds *)

\* deepest nesting of wrapped calls (a wrapped target calling a wrapped target)
MaxDepth == 2

\* longest selection list handed to register_class / register_instance
MaxSel == 2

\* instances constructed in one run
MaxObjs == 2

-----------------------------------------------------------------------------
(* Values *)

None == "None"

\* what a target may return, and the exceptions (instances of Exception) it may raise
Values == {"v1", "v2"}
Excs == {"E1", "E2"}

\* the error a hook raises, named after the hook that raised it
HookErr(h) == "H_" \o h

\* the three ways of binding one callable:
\*   "advice"  Advice.register            (aop.py)
\*   "flc"     FunctionLifeCycle.register (life_cycle.py)
\*   "gen"     module-level register with a generator hook (aop.py)
Forms == {"advice", "flc", "gen"}

\* names of the wrapped targets, as func_name() renders them
Funcs == {"B.main", "B.run"}

\* what a decorator may be handed that is no function or method: an integer
NonCallables == {"5"}
Targets == Funcs \cup NonCallables

NoOutcome == [kind |-> "none", val |-> None]
Ret(v) == [kind |-> "ret", val |-> v]
Raise(e) == [kind |-> "raise", val |-> e]

NoSeen == [success |-> None, result |-> None, exception |-> None]

-----------------------------------------------------------------------------
(* Context and the wrapped callable *)

\* a faulty variant of Context: success starts as True
ContextSuccessTrue(form, func, throw) ==
    [form |-> form, func |-> func, bthrow |-> throw,
     throw |-> IF form = "gen" THEN TRUE ELSE throw,
     success |-> TRUE, result |-> None, exception |-> None,
     pc |-> "before", res |-> NoOutcome, out |-> NoOutcome,
     trace |-> <<>>, seen |-> NoSeen, raised |-> {}]

\* Context(func, args, kwargs, throw=throw): success False, result None,
\* exception None.  The frame also carries the position of the call (pc), the
\* local res / exc of _life_cycle (res), the outcome on its way to the caller
\* (out), the steps taken so far (trace), what the success / failure hook was
\* given (seen) and which hooks raised (raised).
Context(form, func, throw) ==
    [form |-> form, func |-> func, bthrow |-> throw,
     throw |-> IF form = "gen" THEN TRUE ELSE throw,
     success |-> FALSE, result |-> None, exception |-> None,
     pc |-> "before", res |-> NoOutcome, out |-> NoOutcome,
     trace |-> <<>>, seen |-> NoSeen, raised |-> {}]

Top == frames[Len(frames)]
SetTop(fr) == [frames EXCEPT ![Len(frames)] = fr]

-----------------------------------------------------------------------------
(* The hook object: the Tracer of the demos.  before pushes func_name(func)   *)
(* on its stack, after pops it, returning / throwing (or the post-yield code  *)
(* of trace_func) look at the context.  A hook may also raise: before (and    *)
(* the pre-yield code) on entry, the others on exit; the exit of a generator  *)
(* hook is the end of its post-yield code.                                    *)

\* whether the success / failure hook of a call may raise when it is left
MidRaises(fr) == IF fr.form = "gen" THEN {FALSE} ELSE BOOLEAN

Pop(s) == SubSeq(s, 1, Len(s) - 1)

\* Tracer.before: self.stack.append(func_name(context.func))
StackPush(s, name) == Append(s, name)

\* a faulty variant of StackPop: popleft() in place of pop()
StackPopLeft(s) == SubSeq(s, 2, Len(s))

\* Tracer.after: self.stack.pop(), which raises IndexError on an empty deque
StackPop(s) == SubSeq(s, 1, Len(s) - 1)

AfterRaises(s) == IF s = <<>> THEN {TRUE} ELSE BOOLEAN

\* a hook is handed the context and may assign context.throw: before and
\* throwing of an Advice, the post-yield code of a generator hook (whose
\* pre-yield code, as in trace_func, assigns the throw it was registered with).
\* The hooks of FunctionLifeCycle are handed no context, throw is a local of
\* _life_cycle there.
ThrowWrites == {"keep", "True", "False"}
BeforeWrites(fr) == IF fr.form = "advice" THEN ThrowWrites ELSE {"keep"}
FailureWrites(fr) == IF fr.form = "flc" THEN {"keep"} ELSE ThrowWrites

\* context.throw = w in a hook
SetThrow(fr, w) == IF w = "keep" THEN fr ELSE [fr EXCEPT !.throw = (w = "True")]

\* what the success / failure hook is given: the context (Advice, generator
\* hook), or res / exc as an argument (FunctionLifeCycle, which has no context)
Observe(fr) ==
    IF fr.form = "flc"
    THEN [success |-> None,
          result |-> IF fr.res.kind = "ret" THEN fr.res.val ELSE None,
          exception |-> IF fr.res.kind = "raise" THEN fr.res.val ELSE None]
    ELSE [success |-> fr.success, result |-> fr.result, exception |-> fr.exception]

-----------------------------------------------------------------------------
(* _life_cycle and wrapped_func, statement by statement *)

\* before(context) returned, the target is invoked.  trace_func starts with
\* context.throw = throw.
RunBefore(fr) ==
    [fr EXCEPT !.trace = @ \o <<"before", "run">>,
               !.pc = "run",
               !.throw = IF fr.form = "gen" THEN fr.bthrow ELSE @]

\* a faulty variant of FailBefore: before is called inside the try block, its
\* error is handled as the target's
FailBeforeInsideTry(fr) ==
    [fr EXCEPT !.trace = Append(@, "before"),
               !.pc = "throwing",
               !.raised = @ \cup {"before"},
               !.res = Raise(HookErr("before")),
               !.exception = IF fr.form = "flc" THEN @ ELSE HookErr("before")]

\* before(context) raised: nothing is caught, the call ends with the hook's error
FailBefore(fr) ==
    [fr EXCEPT !.trace = Append(@, "before"),
               !.pc = "closed",
               !.raised = @ \cup {"before"},
               !.out = Raise(HookErr("before"))]

\* a faulty variant of OnReturn: context.result is not written
OnReturnMissingResult(fr, v) ==
    [fr EXCEPT !.res = Ret(v), !.pc = "returning",
               !.success = IF fr.form = "flc" THEN @ ELSE TRUE]

\* else: context.success = True; context.result = res
OnReturn(fr, v) ==
    [fr EXCEPT !.res = Ret(v),
               !.pc = "returning",
               !.success = IF fr.form = "flc" THEN @ ELSE TRUE,
               !.result = IF fr.form = "flc" THEN @ ELSE v]

\* a faulty variant of OnRaise: the handler goes on to the success hook
OnRaiseAsSuccess(fr, e) ==
    [fr EXCEPT !.res = Raise(e),
               !.pc = "returning",
               !.success = IF fr.form = "flc" THEN @ ELSE FALSE,
               !.exception = IF fr.form = "flc" THEN @ ELSE e]

\* except Exception as exc: context.success = False; context.exception = exc
OnRaise(fr, e) ==
    [fr EXCEPT !.res = Raise(e),
               !.pc = "throwing",
               !.success = IF fr.form = "flc" THEN @ ELSE FALSE,
               !.exception = IF fr.form = "flc" THEN @ ELSE e]

\* return res
ReturnRes(fr) == Ret(fr.res.val)

\* a faulty variant of Propagate: throw is not consulted, the error is raised
PropagateAlways(fr) == Raise(fr.res.val)

\* a faulty variant of Propagate: throw is not consulted, the error is dropped
PropagateNever(fr) == Ret(None)

\* a faulty variant of Propagate: the throw given at binding is read, not context.throw
PropagateBound(fr) == IF fr.bthrow THEN Raise(fr.res.val) ELSE Ret(None)

\* if context.throw: raise exc   (otherwise the function falls off its end)
Propagate(fr) == IF fr.throw THEN Raise(fr.res.val) ELSE Ret(None)

\* a faulty variant of WrappedResult: context.throw is not consulted
WrappedResultIgnoresThrow(fr) ==
    IF ~fr.success THEN Raise(fr.exception) ELSE Ret(fr.result)

\* wrapped_func of the module-level register, after the with block:
\*   if not context.success and context.throw: raise context.exception
\*   return context.result
WrappedResult(fr) ==
    IF ~fr.success /\ fr.throw THEN Raise(fr.exception) ELSE Ret(fr.result)

\* a faulty variant of AfterReturning: an error raised by the hook is dropped
AfterReturningMasks(fr, raises) ==
    [fr EXCEPT !.trace = Append(@, "returning"), !.seen = Observe(fr),
               !.raised = IF raises THEN @ \cup {"returning"} ELSE @,
               !.pc = "after",
               !.out = IF fr.form = "gen" THEN @ ELSE ReturnRes(fr)]

\* the success hook ran (returning, or the success branch of the post-yield code)
AfterReturning(fr, raises) ==
    LET f1 == [fr EXCEPT !.trace = Append(@, "returning"), !.seen = Observe(fr),
                         !.raised = IF raises THEN @ \cup {"returning"} ELSE @]
    IN  IF fr.form = "gen"
        THEN [f1 EXCEPT !.pc = "after"]
        ELSE [f1 EXCEPT !.pc = "after",
                        !.out = IF raises THEN Raise(HookErr("returning"))
                                          ELSE ReturnRes(fr)]

\* a faulty variant of AfterThrowing: after is not in a finally clause, a raise leaves without it
AfterThrowingNoFinally(fr, raises) ==
    LET f1 == [fr EXCEPT !.trace = Append(@, "throwing"), !.seen = Observe(fr),
                         !.raised = IF raises THEN @ \cup {"throwing"} ELSE @]
    IN  IF fr.form = "gen"
        THEN [f1 EXCEPT !.pc = "after"]
        ELSE IF raises \/ fr.throw
             THEN [f1 EXCEPT !.pc = "closed",
                             !.out = IF raises THEN Raise(HookErr("throwing"))
                                               ELSE Raise(fr.res.val)]
             ELSE [f1 EXCEPT !.pc = "after", !.out = Ret(None)]

\* the failure hook ran (throwing, or the failure branch of the post-yield code)
AfterThrowing(fr, raises) ==
    LET f1 == [fr EXCEPT !.trace = Append(@, "throwing"), !.seen = Observe(fr),
                         !.raised = IF raises THEN @ \cup {"throwing"} ELSE @]
    IN  IF fr.form = "gen"
        THEN [f1 EXCEPT !.pc = "after"]
        ELSE [f1 EXCEPT !.pc = "after",
                        !.out = IF raises THEN Raise(HookErr("throwing"))
                                          ELSE Propagate(fr)]

\* finally: after(context)  (the generator hook: stack.pop(), its last statement)
Finally(fr, raises) ==
    [fr EXCEPT !.trace = Append(@, "after"),
               !.pc = "closed",
               !.raised = IF raises THEN @ \cup {"after"} ELSE @,
               !.out = IF raises THEN Raise(HookErr("after"))
                       ELSE IF fr.form = "gen" THEN WrappedResult(fr)
                       ELSE @]

-----------------------------------------------------------------------------
(* Actions of Spec *)

\* decorator(func): Advice.register and FunctionLifeCycle.register raise
\* TypeError unless _callable(func); the decorator of the module-level register
\* makes no such test and returns wrapped_func for anything
Decorate(form, f) == IF form # "gen" /\ f \notin Funcs THEN "TypeError" ELSE ""

\* a caller (the program, or a running wrapped target) calls a wrapped callable,
\* which exists only if the decorator returned one
Call(form, f, throw) ==
    /\ Len(frames) < MaxDepth
    /\ Decorate(form, f) = ""
    /\ IF frames = <<>> THEN TRUE ELSE Top.pc = "run"
    /\ frames' = Append(frames, Context(form, f, throw))
    /\ UNCHANGED <<stack, bindVars>>

Before ==
    /\ frames # <<>>
    /\ Top.pc = "before"
    /\ \E raises \in BOOLEAN :
          IF raises
          THEN /\ frames' = SetTop(FailBefore(Top))
               /\ UNCHANGED stack
          ELSE /\ \E w \in BeforeWrites(Top) :
                     frames' = SetTop(RunBefore(SetThrow(Top, w)))
               /\ stack' = StackPush(stack, Top.func)
    /\ UNCHANGED bindVars

TargetReturns ==
    /\ frames # <<>>
    /\ Top.pc = "run"
    /\ Top.func \in Funcs
    /\ \E v \in Values : frames' = SetTop(OnReturn(Top, v))
    /\ UNCHANGED <<stack, bindVars>>

\* the target raises, or context.func(...) itself raises TypeError because
\* context.func is not callable
TargetRaises ==
    /\ frames # <<>>
    /\ Top.pc = "run"
    /\ \E e \in (IF Top.func \in Funcs THEN Excs ELSE {"TypeError"}) :
          frames' = SetTop(OnRaise(Top, e))
    /\ UNCHANGED <<stack, bindVars>>

Returning ==
    /\ frames # <<>>
    /\ Top.pc = "returning"
    /\ \E raises \in MidRaises(Top) : frames' = SetTop(AfterReturning(Top, raises))
    /\ UNCHANGED <<stack, bindVars>>

Throwing ==
    /\ frames # <<>>
    /\ Top.pc = "throwing"
    /\ \E raises \in MidRaises(Top), w \in FailureWrites(Top) :
          frames' = SetTop(AfterThrowing(SetThrow(Top, w), raises))
    /\ UNCHANGED <<stack, bindVars>>

After ==
    /\ frames # <<>>
    /\ Top.pc = "after"
    /\ \E raises \in AfterRaises(stack) : frames' = SetTop(Finally(Top, raises))
    /\ stack' = StackPop(stack)
    /\ UNCHANGED bindVars

\* the wrapped callable hands its outcome to its caller
Return ==
    /\ frames # <<>>
    /\ Top.pc = "closed"
    /\ frames' = Pop(frames)
    /\ UNCHANGED <<stack, bindVars>>

EngineInit ==
    /\ frames = <<>>
    /\ stack = <<>>

-----------------------------------------------------------------------------
(* Classes, instances and attribute lookup                                    *)
(*                                                                            *)
(* A class is [name, base, dict, init]: base is the id of its one base class  *)
(* (0: object), dict its own members, init its own __init__.  An instance is  *)
(* [cls, dict].  An attribute value is [k, fn, layers, self]: k its type      *)
(* ("func" a function, "method" a bound method, "data" anything else), fn the *)
(* function underneath, layers the number of wrapped_func around it, self the *)
(* instance that function is bound to (0: none).  In a class's dict k may     *)
(* also be "static" or "classm": the staticmethod / classmethod object that  *)
(* the class statement stores; attribute lookup turns the first into its     *)
(* function and the second into a method bound to the class.                 *)

\* the member names of the model, in sorted order (the order of inspect.getmembers)
NameOrder == <<"__init__", "extra", "helper", "run", "x">>

\* the names a selection list may hold
SelNames == {"extra", "helper", "run", "x"}

\* method_name.startswith('__')
StartsWithDunder(n) == n \in {"__init__"}

MV(k, fn, layers, self) == [k |-> k, fn |-> fn, layers |-> layers, self |-> self]
Missing == MV("missing", "", 0, 0)

Range(s) == {s[i] : i \in DOMAIN s}
Min(S) == CHOOSE x \in S : \A y \in S : x <= y
SeqsUpTo(S, n) == UNION {[1..k -> S] : k \in 0..n}

\* selection / exception as handed to register_class and register_instance;
\* selGiven, excGiven say whether the argument is a list (TRUE) or None
NoCfg == [selGiven |-> FALSE, sel |-> <<>>, excGiven |-> FALSE, exc |-> <<>>]
SelCfg(l) == [selGiven |-> TRUE, sel |-> l, excGiven |-> FALSE, exc |-> <<>>]
ExcCfg(l) == [selGiven |-> FALSE, sel |-> <<>>, excGiven |-> TRUE, exc |-> l]
BothCfg(l, d) == [selGiven |-> TRUE, sel |-> l, excGiven |-> TRUE, exc |-> d]

Cfgs ==
    {NoCfg, ExcCfg(<<"helper">>), BothCfg(<<"run">>, <<"run">>), BothCfg(<<>>, <<"helper">>)}
        \cup {SelCfg(l) : l \in SeqsUpTo(SelNames, MaxSel)}

\* a class's own __init__: none, one written by the user (which calls
\* super().__init__() or not), or the new_init of register_instance
NoInit == [k |-> "none", super |-> FALSE, cfg |-> NoCfg]
UserInit(super) == [k |-> "user", super |-> super, cfg |-> NoCfg]
NewInit(cfg) == [k |-> "new_init", super |-> FALSE, cfg |-> cfg]

\* the lookup of a name along the bases of class c (type.__getattribute__)
RECURSIVE Lookup(_, _, _)
Lookup(cs, c, n) ==
    IF c = 0
    THEN IF n = "__init__" THEN MV("slot", "object.__init__", 0, 0) ELSE Missing
    ELSE IF n = "__init__"
         THEN IF cs[c].init.k = "none"
              THEN Lookup(cs, cs[c].base, n)
              ELSE MV("func", cs[c].name \o ".__init__", 0, 0)
         ELSE IF n \in DOMAIN cs[c].dict
              THEN cs[c].dict[n]
              ELSE Lookup(cs, cs[c].base, n)

\* what the descriptor found in a class's dict gives on lookup
Resolve(v) ==
    CASE v.k = "static" -> [v EXCEPT !.k = "func"]
      [] v.k = "classm" -> [v EXCEPT !.k = "method"]
      [] OTHER -> v

\* getattr(cls, name): a function found on a class stays a function
GetAttrClass(cs, c, n) == Resolve(Lookup(cs, c, n))

\* a faulty variant of GetAttrObj: the method is bound to the first instance
GetAttrObjSharedSelf(cs, o, oid, n) ==
    IF n \in DOMAIN o.dict
    THEN o.dict[n]
    ELSE LET v == Resolve(Lookup(cs, o.cls, n))
         IN  IF v.k = "func" THEN [v EXCEPT !.k = "method", !.self = 1] ELSE v

\* getattr(obj, name): the instance's own dict first, then the class, where a
\* function becomes a method bound to obj
GetAttrObj(cs, o, oid, n) ==
    IF n \in DOMAIN o.dict
    THEN o.dict[n]
    ELSE LET v == Lookup(cs, o.cls, n)
         IN  IF v.k = "func" THEN [v EXCEPT !.k = "method", !.self = oid] ELSE Resolve(v)

\* inspect.getmembers(cls): the names of dir(cls), sorted
GetMembers(cs, c) == SelectSeq(NameOrder, LAMBDA n : GetAttrClass(cs, c, n).k # "missing")

\* _callable(obj): inspect.isfunction(obj) or inspect.ismethod(obj)
Callable(v) == v.k \in {"func", "method"}

\* register(throw).decorator(func): TypeError unless _callable(func), else the
\* wrapped_func, a function whose call runs _life_cycle once around func
AddFunc(v) ==
    IF Callable(v)
    THEN [val |-> [v EXCEPT !.k = "func", !.layers = @ + 1], err |-> ""]
    ELSE [val |-> v, err |-> "TypeError"]

\* how many times the hooks run in one call of v: once for each wrapped_func
HookRuns(v) == v.layers

-----------------------------------------------------------------------------
(* Member discovery *)

\* a faulty variant of SelectionMethods: _callable is not asked
SelectionMethodsUnchecked(cs, c, l) ==
    LET miss == {i \in DOMAIN l : GetAttrClass(cs, c, l[i]).k = "missing"}
        upto == IF miss = {} THEN Len(l) ELSE Min(miss) - 1
    IN  [names |-> SubSeq(l, 1, upto),
         err |-> IF miss = {} THEN "" ELSE "AttributeError"]

\* _SelectionFilter.methods: the listed names, in list order, whose attribute
\* on the class is a function or method; getattr raises AttributeError on a
\* name the class does not have, and the names before it were already yielded
SelectionMethods(cs, c, l) ==
    LET miss == {i \in DOMAIN l : GetAttrClass(cs, c, l[i]).k = "missing"}
        upto == IF miss = {} THEN Len(l) ELSE Min(miss) - 1
    IN  [names |-> SelectSeq(SubSeq(l, 1, upto),
                             LAMBDA n : Callable(GetAttrClass(cs, c, n))),
         err |-> IF miss = {} THEN "" ELSE "AttributeError"]

\* a faulty variant of ExceptionMethods: the list is not consulted
ExceptionMethodsIgnoreList(cs, c, l) ==
    [names |-> SelectSeq(GetMembers(cs, c),
                         LAMBDA n : /\ ~StartsWithDunder(n)
                                    /\ Callable(GetAttrClass(cs, c, n))),
     err |-> ""]

\* _ExceptionFilter.methods: the members, in getmembers order, that are not
\* dunder-named, not in the list, and functions or methods
ExceptionMethods(cs, c, l) ==
    [names |-> SelectSeq(GetMembers(cs, c),
                         LAMBDA n : /\ ~StartsWithDunder(n)
                                    /\ n \notin Range(l)
                                    /\ Callable(GetAttrClass(cs, c, n))),
     err |-> ""]

\* _filter: SelectionFilter(cls, selection) if selection
\*          else ExceptionFilter(cls, exception or [])
Filter(cs, c, cfg) ==
    IF cfg.selGiven /\ cfg.sel # <<>>
    THEN SelectionMethods(cs, c, cfg.sel)
    ELSE ExceptionMethods(cs, c, IF cfg.excGiven THEN cfg.exc ELSE <<>>)

-----------------------------------------------------------------------------
(* register_class and register_instance *)

NewClass(name, base, dict, init, how, cfg) ==
    [name |-> name, base |-> base, dict |-> dict, init |-> init,
     how |-> how, cfg |-> cfg]

\* for name in method_filter.methods: cls_dict[name] = add_func(cls_dict[name])
\* cls_dict is a copy of the class's own __dict__: a name it does not hold is a
\* KeyError, a value that is no function or method a TypeError
RECURSIVE WrapDict(_, _, _)
WrapDict(d, names, i) ==
    IF i > Len(names)
    THEN [dict |-> d, err |-> ""]
    ELSE IF names[i] \notin DOMAIN d
         THEN [dict |-> d, err |-> "KeyError"]
         ELSE LET w == AddFunc(d[names[i]])
              IN  IF w.err # ""
                  THEN [dict |-> d, err |-> w.err]
                  ELSE WrapDict([d EXCEPT ![names[i]] = w.val], names, i + 1)

\* a faulty variant of RegisterClass: the loop ends after the first member
RegisterClassFirstOnly(cs, c, cfg) ==
    LET f == Filter(cs, c, cfg)
        w == WrapDict(cs[c].dict, IF f.names = <<>> THEN <<>> ELSE <<f.names[1]>>, 1)
    IN  [cls |-> NewClass(cs[c].name, c, w.dict, cs[c].init, "register_class", cfg),
         names |-> f.names,
         err |-> IF w.err # "" THEN w.err ELSE f.err]

\* register_class(...).decorated_class(cls): type(cls_name, (cls,), cls_dict)
RegisterClass(cs, c, cfg) ==
    LET f == Filter(cs, c, cfg)
        w == WrapDict(cs[c].dict, f.names, 1)
    IN  [cls |-> NewClass(cs[c].name, c, w.dict, cs[c].init, "register_class", cfg),
         names |-> f.names,
         err |-> IF w.err # "" THEN w.err ELSE f.err]

\* register_instance(...).decorated_class(cls): the class's own members are
\* copied as they are, and __init__ is new_init
RegisterInstance(cs, c, cfg) ==
    [cls |-> NewClass(cs[c].name, c, cs[c].dict, NewInit(cfg), "register_instance", cfg),
     names |-> <<>>,
     err |-> ""]

\* new_init: for name in method_filter.methods:
\*     setattr(obj, name, add_func(getattr(obj, name)))
RECURSIVE WrapObj(_, _, _, _, _)
WrapObj(cs, o, oid, names, i) ==
    IF i > Len(names)
    THEN [obj |-> o, err |-> ""]
    ELSE LET w == AddFunc(GetAttrObj(cs, o, oid, names[i]))
         IN  IF w.err # ""
             THEN [obj |-> o, err |-> w.err]
             ELSE WrapObj(cs, [o EXCEPT !.dict = (names[i] :> w.val) @@ @],
                          oid, names, i + 1)

\* a faulty variant of DiscoveryClass: cls, the decorated class, in place of obj.__class__
DiscoveryClassDeclared(cs, c, o) == cs[c].base

\* new_init: _args = (obj.__class__, selection, exception)
DiscoveryClass(cs, c, o) == o.cls

\* new_init of class c, after cls.__init__(obj) has run
NewInitBody(cs, c, st, oid) ==
    IF st.err # ""
    THEN st
    ELSE LET f == Filter(cs, DiscoveryClass(cs, c, st.obj), cs[c].init.cfg)
             w == WrapObj(cs, st.obj, oid, f.names, 1)
         IN  [obj |-> w.obj,
              err |-> IF w.err # "" THEN w.err ELSE f.err,
              names |-> f.names,
              ran |-> TRUE]

\* the __init__ found from class c upwards, run on the new object: a class
\* without its own __init__ inherits it; a user's __init__ chains to the next
\* one only if it calls super().__init__(); new_init first calls
\* cls.__init__(obj), cls being the class it was made from
RECURSIVE InitFrom(_, _, _, _)
InitFrom(cs, c, st, oid) ==
    IF c = 0
    THEN st
    ELSE CASE cs[c].init.k = "none" -> InitFrom(cs, cs[c].base, st, oid)
           [] cs[c].init.k = "user" ->
                 IF cs[c].init.super THEN InitFrom(cs, cs[c].base, st, oid) ELSE st
           [] OTHER -> NewInitBody(cs, c, InitFrom(cs, cs[c].base, st, oid), oid)

\* K(): a new object of class K, initialised by K's __init__
NewObject(cs, K, oid) ==
    InitFrom(cs, K,
             [obj |-> [cls |-> K, dict |-> <<>>], err |-> "", names |-> <<>>,
              ran |-> FALSE],
             oid)

-----------------------------------------------------------------------------
(* Actions of SpecBind *)

NoOp ==
    [op |-> "none", cls |-> 0, obj |-> 0, name |-> "", hooks |-> 0, fn |-> "",
     self |-> 0, err |-> "", names |-> <<>>, cfg |-> NoCfg, ran |-> FALSE,
     form |-> ""]

\* class A: x = ...; def run(self); def helper(self)   (with or without __init__)
DeclareBase ==
    /\ classes = <<>>
    /\ \E userInit \in BOOLEAN :
          classes' = <<NewClass("A", 0,
                                ("helper" :> MV("func", "A.helper", 0, 0))
                                  @@ ("run" :> MV("func", "A.run", 0, 0))
                                  @@ ("x" :> MV("data", "A.x", 0, 0)),
                                IF userInit THEN UserInit(FALSE) ELSE NoInit,
                                "declared", NoCfg)>>
    /\ last' = [NoOp EXCEPT !.op = "class", !.cls = 1]
    /\ UNCHANGED <<objs, engineVars>>

\* @advice.register_class(selection, exception) on class A
BindClass ==
    /\ Len(classes) = 1
    /\ \E cfg \in Cfgs :
          LET r == RegisterClass(classes, 1, cfg)
          IN  /\ classes' = IF r.err = "" THEN Append(classes, r.cls) ELSE classes
              /\ last' = [NoOp EXCEPT !.op = "register_class",
                                      !.cls = IF r.err = "" THEN 2 ELSE 0,
                                      !.names = r.names, !.err = r.err,
                                      !.cfg = cfg]
    /\ UNCHANGED <<objs, engineVars>>

\* @advice.register_instance(selection, exception) on class A
BindInstance ==
    /\ Len(classes) = 1
    /\ \E cfg \in Cfgs :
          LET r == RegisterInstance(classes, 1, cfg)
          IN  /\ classes' = Append(classes, r.cls)
              /\ last' = [NoOp EXCEPT !.op = "register_instance", !.cls = 2,
                                      !.cfg = cfg]
    /\ UNCHANGED <<objs, engineVars>>

\* class B(A): def extra(self)   (with or without its own run and __init__)
DeclareSub ==
    /\ Len(classes) = 2
    /\ \E overrides \in BOOLEAN, ini \in {NoInit, UserInit(TRUE), UserInit(FALSE)} :
          classes' = Append(classes,
              NewClass("B", 2,
                       IF overrides
                       THEN ("extra" :> MV("func", "B.extra", 0, 0))
                              @@ ("run" :> MV("func", "B.run", 0, 0))
                       ELSE ("extra" :> MV("func", "B.extra", 0, 0)),
                       ini, "declared", NoCfg))
    /\ last' = [NoOp EXCEPT !.op = "class", !.cls = 3]
    /\ UNCHANGED <<objs, engineVars>>

\* K() for a class created so far
Construct ==
    /\ Len(objs) < MaxObjs
    /\ \E K \in DOMAIN classes :
          LET st == NewObject(classes, K, Len(objs) + 1)
          IN  /\ objs' = IF st.err = "" THEN Append(objs, st.obj) ELSE objs
              /\ last' = [NoOp EXCEPT !.op = "new", !.cls = K,
                                      !.obj = IF st.err = "" THEN Len(objs) + 1 ELSE 0,
                                      !.names = st.names, !.err = st.err,
                                      !.ran = st.ran]
    /\ UNCHANGED <<classes, engineVars>>

\* obj.name(): the attribute is looked up and called
CallMethod ==
    /\ \E oid \in DOMAIN objs, n \in {"extra", "helper", "run"} :
          LET v == GetAttrObj(classes, objs[oid], oid, n)
          IN  /\ Callable(v)
              /\ last' = [NoOp EXCEPT !.op = "call", !.cls = objs[oid].cls,
                                      !.obj = oid, !.name = n,
                                      !.hooks = HookRuns(v), !.fn = v.fn,
                                      !.self = v.self]
    /\ UNCHANGED <<classes, objs, engineVars>>

BindIdle ==
    /\ classes = <<>>
    /\ objs = <<>>
    /\ last = NoOp

Init == EngineInit /\ BindIdle

NextBind ==
    \/ DeclareBase
    \/ BindClass
    \/ BindInstance
    \/ DeclareSub
    \/ Construct
    \/ CallMethod

SpecBind == Init /\ [][NextBind]_vars

-----------------------------------------------------------------------------
(* SpecMembers: binding a class C whose members are of every kind            *)

\* what a class statement may store under a name: a function, a staticmethod,
\* a classmethod, or a value that is none of these
MemberKinds == {"func", "static", "classm", "data"}

\* class P: def helper(self)          class C or class C(P): run, and maybe extra
MemberClasses ==
    {<<NewClass("P", 0, ("helper" :> MV("func", "P.helper", 0, 0)), NoInit,
                "declared", NoCfg),
       NewClass("C", base, dict, NoInit, "declared", NoCfg)>> :
        base \in {0, 1},
        dict \in {("run" :> MV(k, "C.run", 0, 0)) : k \in MemberKinds}
                 \cup {("run" :> MV(k1, "C.run", 0, 0)) @@ ("extra" :> MV(k2, "C.extra", 0, 0)) :
                           k1 \in MemberKinds, k2 \in MemberKinds}}

InitMembers ==
    /\ EngineInit
    /\ classes \in MemberClasses
    /\ objs = <<>>
    /\ last = NoOp

\* @advice.register_class(selection, exception) on class C
BindClassMembers ==
    /\ Len(classes) = 2
    /\ \E cfg \in Cfgs :
          LET r == RegisterClass(classes, 2, cfg)
          IN  /\ classes' = IF r.err = "" THEN Append(classes, r.cls) ELSE classes
              /\ last' = [NoOp EXCEPT !.op = "register_class",
                                      !.cls = IF r.err = "" THEN 3 ELSE 0,
                                      !.names = r.names, !.err = r.err,
                                      !.cfg = cfg]
    /\ UNCHANGED <<objs, engineVars>>

\* @advice.register_instance(selection, exception) on class C
BindInstanceMembers ==
    /\ Len(classes) = 2
    /\ \E cfg \in Cfgs :
          LET r == RegisterInstance(classes, 2, cfg)
          IN  /\ classes' = Append(classes, r.cls)
              /\ last' = [NoOp EXCEPT !.op = "register_instance", !.cls = 3,
                                      !.cfg = cfg]
    /\ UNCHANGED <<objs, engineVars>>

NextMembers ==
    \/ BindClassMembers
    \/ BindInstanceMembers
    \/ Construct
    \/ CallMethod

SpecMembers == InitMembers /\ [][NextMembers]_vars

\* @register(...) applied to f, by the program or by a running target
Register ==
    /\ IF frames = <<>> THEN TRUE ELSE Top.pc = "run"
    /\ \E form \in Forms, f \in Targets :
          last' = [NoOp EXCEPT !.op = "register", !.form = form, !.fn = f,
                               !.err = Decorate(form, f)]
    /\ UNCHANGED <<classes, objs, engineVars>>

CallAny == \E form \in Forms, f \in Targets, throw \in BOOLEAN : Call(form, f, throw)

Next ==
    \/ Register
    \/ CallAny
    \/ Before
    \/ TargetReturns
    \/ TargetRaises
    \/ Returning
    \/ Throwing
    \/ After
    \/ Return

Spec == Init /\ [][Next]_vars

-----------------------------------------------------------------------------
(* SpecThreads: wrapped calls made by two threads through the same hook      *)
(* object.  Every frame carries the thread that made the call; a thread      *)
(* steps the innermost of its own calls, and the steps of the two threads    *)
(* interleave.  The hook object's stack is the one deque both threads use.   *)
(* Each thread calls a function of its own, which returns or raises a value  *)
(* of its own, so that an outcome found in a context tells whose it is; the  *)
(* hooks of these calls leave context.throw alone.  The calls are those that *)
(* have a Context: Advice.register and the module-level register.            *)

Threads == {"t1", "t2"}

ContextForms == {"advice", "gen"}

ThreadFunc(t) == IF t = "t1" THEN "B.main" ELSE "B.run"
ThreadValue(t) == IF t = "t1" THEN "v1" ELSE "v2"
ThreadExc(t) == IF t = "t1" THEN "E1" ELSE "E2"

\* the innermost call of thread t (0: the thread is in no wrapped call)
TopOf(t) ==
    LET S == {i \in DOMAIN frames : frames[i].thread = t}
    IN  IF S = {} THEN 0 ELSE CHOOSE i \in S : \A j \in S : j <= i

RemoveAt(sq, i) == SubSeq(sq, 1, i - 1) \o SubSeq(sq, i + 1, Len(sq))

\* a faulty variant of SetFrame: one context object serves all the calls in progress
SetFrameShared(i, fr) ==
    [k \in DOMAIN frames |->
        IF k = i THEN fr
        ELSE [frames[k] EXCEPT !.success = fr.success, !.result = fr.result,
                               !.exception = fr.exception]]

\* context = Context(func, args, kwargs, throw=throw): the context is a local
\* of the running wrapped_func, a write to it reaches that call's context only
SetFrame(i, fr) == [frames EXCEPT ![i] = fr]

ThreadCall(t) ==
    /\ Len(frames) < MaxDepth
    /\ IF TopOf(t) = 0 THEN TRUE ELSE frames[TopOf(t)].pc = "run"
    /\ \E form \in ContextForms, throw \in BOOLEAN :
          frames' = Append(frames, [thread |-> t] @@ Context(form, ThreadFunc(t), throw))
    /\ UNCHANGED <<stack, bindVars>>

ThreadBefore(t) ==
    LET i == TopOf(t) IN
    /\ i # 0
    /\ frames[i].pc = "before"
    /\ \E raises \in BOOLEAN :
          IF raises
          THEN /\ frames' = SetFrame(i, FailBefore(frames[i]))
               /\ UNCHANGED stack
          ELSE /\ frames' = SetFrame(i, RunBefore(frames[i]))
               /\ stack' = StackPush(stack, frames[i].func)
    /\ UNCHANGED bindVars

ThreadTargetReturns(t) ==
    LET i == TopOf(t) IN
    /\ i # 0
    /\ frames[i].pc = "run"
    /\ frames' = SetFrame(i, OnReturn(frames[i], ThreadValue(t)))
    /\ UNCHANGED <<stack, bindVars>>

ThreadTargetRaises(t) ==
    LET i == TopOf(t) IN
    /\ i # 0
    /\ frames[i].pc = "run"
    /\ frames' = SetFrame(i, OnRaise(frames[i], ThreadExc(t)))
    /\ UNCHANGED <<stack, bindVars>>

ThreadReturning(t) ==
    LET i == TopOf(t) IN
    /\ i # 0
    /\ frames[i].pc = "returning"
    /\ \E raises \in MidRaises(frames[i]) :
          frames' = SetFrame(i, AfterReturning(frames[i], raises))
    /\ UNCHANGED <<stack, bindVars>>

ThreadThrowing(t) ==
    LET i == TopOf(t) IN
    /\ i # 0
    /\ frames[i].pc = "throwing"
    /\ \E raises \in MidRaises(frames[i]) :
          frames' = SetFrame(i, AfterThrowing(frames[i], raises))
    /\ UNCHANGED <<stack, bindVars>>

ThreadAfter(t) ==
    LET i == TopOf(t) IN
    /\ i # 0
    /\ frames[i].pc = "after"
    /\ \E raises \in AfterRaises(stack) : frames' = SetFrame(i, Finally(frames[i], raises))
    /\ stack' = StackPop(stack)
    /\ UNCHANGED bindVars

ThreadReturn(t) ==
    LET i == TopOf(t) IN
    /\ i # 0
    /\ frames[i].pc = "closed"
    /\ frames' = RemoveAt(frames, i)
    /\ UNCHANGED <<stack, bindVars>>

NextThreads ==
    \/ \E t \in Threads : ThreadCall(t)
    \/ \E t \in Threads : ThreadBefore(t)
    \/ \E t \in Threads : ThreadTargetReturns(t)
    \/ \E t \in Threads : ThreadTargetRaises(t)
    \/ \E t \in Threads : ThreadReturning(t)
    \/ \E t \in Threads : ThreadThrowing(t)
    \/ \E t \in Threads : ThreadAfter(t)
    \/ \E t \in Threads : ThreadReturn(t)

SpecThreads == Init /\ [][NextThreads]_vars

-----------------------------------------------------------------------------
(* SpecHooks: wrapped calls whose hooks are those of the second demo          *)
(* (ScheduledTask, task_func), which keep no stack.  A hook that is handed    *)
(* the context may assign context.result, and the hook function given to the  *)
(* module-level register may suspend once, never, or a second time where its  *)
(* code would have ended.  Every frame carries the number of suspensions of   *)
(* its hook function (yields).                                                *)

\* the value a hook assigns to context.result
HookValue == "h"

ResultWrites == {"keep", "write"}

\* context.result = HookValue in a hook
SetResult(fr, w) == IF w = "keep" THEN fr ELSE [fr EXCEPT !.result = HookValue]

\* how many yield statements the hook of a call runs into: the methods of an
\* Advice are plain functions, a generator hook is meant to yield once
Suspensions(form) == IF form = "gen" THEN {0, 1, 2} ELSE {1}

\* a faulty variant of EnterWithoutYield: the with body runs all the same
EnterWithoutYieldRuns(fr) == RunBefore(fr)

\* with advice(context, **kwargs): the hook function ended without a yield,
\* entering the with statement raises RuntimeError and its body is not run
EnterWithoutYield(fr) ==
    [fr EXCEPT !.trace = Append(@, "before"),
               !.pc = "closed",
               !.out = Raise("RuntimeError")]

\* a faulty variant of ExitWithYield: the second yield is taken for the end
ExitWithYieldEnds(fr) == Finally(fr, FALSE)

\* with advice(context, **kwargs): the hook function, resumed when the body is
\* left, yields again: leaving the with statement raises RuntimeError, and the
\* statements after the with block are not reached
ExitWithYield(fr) ==
    [fr EXCEPT !.pc = "closed",
               !.out = Raise("RuntimeError")]

HookCall ==
    /\ Len(frames) < MaxDepth
    /\ IF frames = <<>> THEN TRUE ELSE Top.pc = "run"
    /\ \E form \in ContextForms, f \in Funcs, throw \in BOOLEAN :
          \E y \in Suspensions(form) :
              frames' = Append(frames, [yields |-> y] @@ Context(form, f, throw))
    /\ UNCHANGED <<stack, bindVars>>

\* before(context), or the hook function up to its first yield
HookBefore ==
    /\ frames # <<>>
    /\ Top.pc = "before"
    /\ \E raises \in BOOLEAN, w \in ResultWrites :
          frames' = SetTop(IF raises THEN FailBefore(Top)
                           ELSE IF Top.yields = 0 THEN EnterWithoutYield(SetResult(Top, w))
                           ELSE RunBefore(SetResult(Top, w)))
    /\ UNCHANGED <<stack, bindVars>>

HookTargetReturns ==
    /\ frames # <<>>
    /\ Top.pc = "run"
    /\ \E v \in Values : frames' = SetTop(OnReturn(Top, v))
    /\ UNCHANGED <<stack, bindVars>>

HookTargetRaises ==
    /\ frames # <<>>
    /\ Top.pc = "run"
    /\ \E e \in Excs : frames' = SetTop(OnRaise(Top, e))
    /\ UNCHANGED <<stack, bindVars>>

\* returning(context), or the success branch of the post-yield code
HookReturning ==
    /\ frames # <<>>
    /\ Top.pc = "returning"
    /\ \E raises \in MidRaises(Top), w \in ResultWrites :
          frames' = SetTop(SetResult(AfterReturning(Top, raises), w))
    /\ UNCHANGED <<stack, bindVars>>

\* throwing(context), or the failure branch of the post-yield code
HookThrowing ==
    /\ frames # <<>>
    /\ Top.pc = "throwing"
    /\ \E raises \in MidRaises(Top), w \in ResultWrites :
          frames' = SetTop(SetResult(AfterThrowing(Top, raises), w))
    /\ UNCHANGED <<stack, bindVars>>

\* after(context), or the hook function reaching its end, or its second yield
HookAfter ==
    /\ frames # <<>>
    /\ Top.pc = "after"
    /\ \E raises \in BOOLEAN, w \in ResultWrites :
          frames' = SetTop(IF raises THEN Finally(Top, TRUE)
                           ELSE IF Top.yields = 2 THEN ExitWithYield(SetResult(Top, w))
                           ELSE Finally(SetResult(Top, w), FALSE))
    /\ UNCHANGED <<stack, bindVars>>

HookReturn ==
    /\ frames # <<>>
    /\ Top.pc = "closed"
    /\ frames' = Pop(frames)
    /\ UNCHANGED <<stack, bindVars>>

NextHooks ==
    \/ HookCall
    \/ HookBefore
    \/ HookTargetReturns
    \/ HookTargetRaises
    \/ HookReturning
    \/ HookThrowing
    \/ HookAfter
    \/ HookReturn

SpecHooks == Init /\ [][NextHooks]_vars

-----------------------------------------------------------------------------
(* SpecLayers: instance binding applied along a line of classes, and the      *)
(* constructor run again on an object.  A is bound by register_instance, B    *)
(* is declared as a subclass of the new A and may be bound by                 *)
(* register_instance in its turn; objects are constructed, their __init__ may *)
(* be called again, and their methods are called.                             *)

\* the deepest wrapping an object's method is taken to by running __init__ again
MaxLayers == 3

\* selection / exception handed to register_instance on A and on B
LayerCfgs == {NoCfg, SelCfg(<<"run">>), ExcCfg(<<"helper">>)}

\* @advice.register_instance(selection, exception) on class A
BindInstanceBase ==
    /\ Len(classes) = 1
    /\ \E cfg \in LayerCfgs :
          LET r == RegisterInstance(classes, 1, cfg)
          IN  /\ classes' = Append(classes, r.cls)
              /\ last' = [NoOp EXCEPT !.op = "register_instance", !.cls = 2,
                                      !.cfg = cfg]
    /\ UNCHANGED <<objs, engineVars>>

\* @advice.register_instance(selection, exception) on class B, the subclass of
\* the instance-bound A
BindInstanceSub ==
    /\ Len(classes) = 3
    /\ \E cfg \in LayerCfgs :
          LET r == RegisterInstance(classes, 3, cfg)
          IN  /\ classes' = Append(classes, r.cls)
              /\ last' = [NoOp EXCEPT !.op = "register_instance", !.cls = 4,
                                      !.cfg = cfg]
    /\ UNCHANGED <<objs, engineVars>>

\* obj.__init__(): the __init__ of the object's class is run on it again; what
\* new_init has set on the object before an error stays set
Reinit ==
    /\ \E oid \in DOMAIN objs :
          LET st == InitFrom(classes, objs[oid].cls,
                             [obj |-> objs[oid], err |-> "", names |-> <<>>,
                              ran |-> FALSE],
                             oid)
          IN  /\ \A n \in DOMAIN st.obj.dict : st.obj.dict[n].layers <= MaxLayers
              /\ objs' = [objs EXCEPT ![oid] = st.obj]
              /\ last' = [NoOp EXCEPT !.op = "init", !.cls = objs[oid].cls,
                                      !.obj = oid, !.names = st.names,
                                      !.err = st.err, !.ran = st.ran]
    /\ UNCHANGED <<classes, engineVars>>

NextLayers ==
    \/ DeclareBase
    \/ BindInstanceBase
    \/ DeclareSub
    \/ BindInstanceSub
    \/ Construct
    \/ Reinit
    \/ CallMethod

SpecLayers == Init /\ [][NextLayers]_vars

-----------------------------------------------------------------------------
(* Reading a call *)

Count(seq, e) == Cardinality({i \in DOMAIN seq : seq[i] = e})

Hooks == {"before", "returning", "throwing", "after"}

Closed(fr) == fr.pc = "closed"
NoHookRaised(fr) == fr.raised = {}
TargetReturned(fr) == fr.res.kind = "ret"
TargetRaised(fr) == fr.res.kind = "raise"

\* the steps of a call that got as far as fr did, in the order of _life_cycle
Expected(fr) ==
    <<"before", "run">>
        \o (IF TargetReturned(fr) THEN <<"returning">>
            ELSE IF TargetRaised(fr) THEN <<"throwing">> ELSE <<>>)
        \o <<"after">>

IsPrefix(s, t) == Len(s) <= Len(t) /\ \A i \in DOMAIN s : s[i] = t[i]

\* the state of the call, in the words of the specification
LState(fr) ==
    CASE fr.pc = "before" -> "PENDING"
      [] fr.pc = "run" -> "RUNNING"
      [] fr.pc = "returning" -> "SUCCEEDED"
      [] fr.pc = "throwing" -> "FAILED"
      [] fr.pc = "after" -> IF TargetReturned(fr) THEN "SUCCEEDED" ELSE "FAILED"
      [] OTHER -> "CLOSED"

Transitions ==
    {<<"PENDING", "RUNNING">>, <<"RUNNING", "SUCCEEDED">>, <<"RUNNING", "FAILED">>,
     <<"SUCCEEDED", "CLOSED">>, <<"FAILED", "CLOSED">>}

\* the wrapped calls between their before and their after, outermost first
ActiveNames ==
    LET act == SelectSeq(frames, LAMBDA fr : fr.pc \in {"run", "returning", "throwing", "after"})
    IN  [i \in DOMAIN act |-> act[i].func]

-----------------------------------------------------------------------------
(* Claims *)

\* C1: when the target returns v without raising (and no hook raises), the
\* wrapped callable of Advice.register, of the module-level register (and of
\* FunctionLifeCycle.register) returns v to its caller, and the success hook
\* saw context.success = True and context.result = v.
C1_ReturnsTargetValue ==
    \A i \in DOMAIN frames :
        LET fr == frames[i] IN
        /\ (Closed(fr) /\ TargetReturned(fr) /\ NoHookRaised(fr))
              => /\ fr.out = Ret(fr.res.val)
                 /\ Count(fr.trace, "returning") = 1
        /\ (fr.form # "flc" /\ Count(fr.trace, "returning") > 0)
              => /\ fr.seen.success = TRUE
                 /\ fr.seen.result = fr.res.val
                 /\ TargetReturned(fr)

C1_Witness ==
    \E i \in DOMAIN frames :
        /\ Closed(frames[i]) /\ frames[i].form = "gen"
        /\ frames[i].res = Ret("v2") /\ frames[i].out = Ret("v2")
        /\ frames[i].seen.result = "v2"

\* C2: when the target raises E and throw is True (no hook changes it or raises), the
\* wrapped call raises that same E, after throwing and then after have each run
\* exactly once, in that order.
C2_PropagatesSameError ==
    \A i \in DOMAIN frames :
        LET fr == frames[i] IN
        (Closed(fr) /\ TargetRaised(fr) /\ fr.bthrow /\ fr.throw = fr.bthrow
            /\ NoHookRaised(fr))
           => /\ fr.out = Raise(fr.res.val)
              /\ SelectSeq(fr.trace, LAMBDA e : e \in {"throwing", "after", "returning"})
                    = <<"throwing", "after">>

C2_Witness ==
    \E i \in DOMAIN frames :
        /\ Closed(frames[i]) /\ frames[i].bthrow /\ frames[i].form = "advice"
        /\ frames[i].res = Raise("E2") /\ frames[i].out = Raise("E2")

\* C3: when the target raises E and throw is False (no hook changes it or raises), the
\* wrapped call returns None and raises nothing, and the failure hook ran once
\* and was given success = False and exception = E (FunctionLifeCycle: exc = E).
C3_SuppressedFailure ==
    \A i \in DOMAIN frames :
        LET fr == frames[i] IN
        /\ (Closed(fr) /\ TargetRaised(fr) /\ ~fr.bthrow /\ fr.throw = fr.bthrow
               /\ NoHookRaised(fr))
              => /\ fr.out = Ret(None)
                 /\ Count(fr.trace, "throwing") = 1
        /\ Count(fr.trace, "throwing") > 0
              => /\ TargetRaised(fr)
                 /\ fr.seen.exception = fr.res.val
                 /\ fr.form # "flc" => fr.seen.success = FALSE

C3_Witness ==
    \E i \in DOMAIN frames :
        /\ Closed(frames[i]) /\ ~frames[i].bthrow /\ frames[i].form = "advice"
        /\ frames[i].res = Raise("E1") /\ frames[i].out = Ret(None)
        /\ frames[i].seen.exception = "E1"

\* C4: the after hook runs exactly once for every call whose target was invoked,
\* whether the target returned or raised and whatever throw is, and never more
\* than once.
C4_AfterOnce ==
    \A i \in DOMAIN frames :
        LET fr == frames[i] IN
        /\ Count(fr.trace, "after") <= 1
        /\ (Closed(fr) /\ Count(fr.trace, "run") > 0) => Count(fr.trace, "after") = 1

C4_Witness ==
    \E i \in DOMAIN frames :
        /\ Closed(frames[i]) /\ TargetRaised(frames[i]) /\ frames[i].bthrow
        /\ frames[i].out.kind = "raise"
        /\ Count(frames[i].trace, "after") = 1

\* C5: a call whose before hook returns goes before, target, returning or
\* throwing (by the target's outcome), after, in this order and with nothing
\* else; it moves PENDING -> RUNNING -> SUCCEEDED | FAILED -> CLOSED and makes
\* no other transition; the target is invoked once.
C5_Order ==
    \A i \in DOMAIN frames :
        LET fr == frames[i] IN
        /\ IsPrefix(fr.trace, Expected(fr))
        /\ (Closed(fr) /\ "before" \notin fr.raised) => fr.trace = Expected(fr) /\ Len(fr.trace) = 4
        /\ fr.pc \notin {"before", "closed"} => Count(fr.trace, "run") = 1

C5_Step ==
    /\ \A i \in DOMAIN frames \cap DOMAIN frames' :
          \/ LState(frames'[i]) = LState(frames[i])
          \/ <<LState(frames[i]), LState(frames'[i])>> \in Transitions
          \/ LState(frames[i]) = "PENDING" /\ "before" \in frames'[i].raised
    /\ \A i \in DOMAIN frames' \ DOMAIN frames : LState(frames'[i]) = "PENDING"
    /\ \A i \in DOMAIN frames \ DOMAIN frames' : LState(frames[i]) = "CLOSED"

C5_Lifecycle == []C5_Order /\ [][C5_Step]_vars

C5_Witness ==
    \E i \in DOMAIN frames :
        /\ Closed(frames[i]) /\ frames[i].form = "advice"
        /\ frames[i].trace = <<"before", "run", "throwing", "after">>

\* C6: (Advice, FunctionLifeCycle) if returning or throwing raises H, after
\* still runs exactly once and, unless after raises too, the caller receives H,
\* also when throw is False.
C6_HookErrorSupersedes ==
    \A i \in DOMAIN frames :
        LET fr == frames[i] IN
        \A h \in {"returning", "throwing"} :
            (Closed(fr) /\ fr.form # "gen" /\ h \in fr.raised)
               => /\ Count(fr.trace, "after") = 1
                  /\ "after" \notin fr.raised => fr.out = Raise(HookErr(h))

C6_Witness ==
    \E i \in DOMAIN frames :
        /\ Closed(frames[i]) /\ ~frames[i].bthrow
        /\ frames[i].raised = {"throwing"}
        /\ frames[i].out = Raise(HookErr("throwing"))
        /\ Count(frames[i].trace, "after") = 1

\* C7: with the hook that pushes the callee's name in before and pops in after,
\* the stack always equals the chain of the wrapped calls between their before
\* and their after, outermost first; it changes only by the push of a call's
\* before and by the pop, in that call's after, of the entry that call pushed;
\* it is empty when no wrapped call is running.
C7_Mirror ==
    /\ stack = ActiveNames
    /\ frames = <<>> => stack = <<>>

C7_Step ==
    stack' # stack =>
        \/ /\ Top.pc = "before"
           /\ stack' = Append(stack, Top.func)
           /\ Len(stack') = Len(frames)
        \/ /\ Top.pc = "after"
           /\ stack = Append(stack', Top.func)
           /\ Len(stack) = Len(frames)

C7_StackDiscipline == []C7_Mirror /\ [][C7_Step]_vars

C7_Witness ==
    /\ stack = <<"B.main", "B.run">>
    /\ Len(frames) = 2
    /\ frames[2].pc = "after" /\ TargetRaised(frames[2])

-----------------------------------------------------------------------------
(* Reading a binding *)

\* class 1 is A as declared, class 2 the class the decorator returned for it,
\* class 3 the subclass B of class 2
ClassBound(cfg) ==
    Len(classes) >= 2 /\ classes[2].how = "register_class" /\ classes[2].cfg = cfg
InstanceBound(cfg) ==
    Len(classes) >= 2 /\ classes[2].how = "register_instance" /\ classes[2].cfg = cfg

\* the members and the methods each class has, as declared
MemberNames(c) == IF c = 3 THEN {"extra", "helper", "run", "x"} ELSE {"helper", "run", "x"}
FunctionNames(c) == IF c = 3 THEN {"extra", "helper", "run"} ELSE {"helper", "run"}

\* how often the hooks run when name n is called on instance oid
Hooked(oid, n) == HookRuns(GetAttrObj(classes, objs[oid], oid, n))

\* B's constructor reaches the constructor B inherits
Chains(c) == classes[c].init.k = "none" \/ classes[c].init.super

-----------------------------------------------------------------------------
(* Claims on binding *)

\* C8: with A bound by register_class(selection=None) and B a subclass of the
\* new A adding extra: run and helper on an instance of the new A run the
\* hooks; extra on a B instance runs none; run on a B instance runs them if and
\* only if B does not define run itself.
C8_ClassBindingNotInherited ==
    ClassBound(NoCfg) =>
        /\ \A oid \in DOMAIN objs :
              /\ objs[oid].cls = 2 => Hooked(oid, "run") = 1 /\ Hooked(oid, "helper") = 1
              /\ objs[oid].cls = 3 =>
                    /\ Hooked(oid, "extra") = 0
                    /\ Hooked(oid, "run") >= 1 <=> "run" \notin DOMAIN classes[3].dict
        /\ last.op = "call" =>
              /\ (last.cls = 2 /\ last.name \in {"run", "helper"}) => last.hooks = 1
              /\ (last.cls = 3 /\ last.name = "extra") => last.hooks = 0
              /\ (last.cls = 3 /\ last.name = "run") =>
                    (last.hooks >= 1 <=> "run" \notin DOMAIN classes[3].dict)

C8_Witness ==
    /\ ClassBound(NoCfg)
    /\ Len(classes) = 3 /\ "run" \in DOMAIN classes[3].dict
    /\ \E oid \in DOMAIN objs :
          /\ objs[oid].cls = 3
          /\ Hooked(oid, "helper") = 1 /\ Hooked(oid, "extra") = 0
    /\ last.op = "call" /\ last.cls = 3 /\ last.name = "run"
    /\ last.hooks = 0

\* C9: with A bound by register_instance (selection and exception unset), every
\* constructed instance of every subclass B has run, helper and extra wrapped,
\* also when B defines its own constructor.
C9_EverySubclassInstanceWrapped ==
    InstanceBound(NoCfg) =>
        /\ \A oid \in DOMAIN objs :
              objs[oid].cls = 3 =>
                  \A n \in {"run", "helper", "extra"} : Hooked(oid, n) >= 1
        /\ (last.op = "call" /\ last.cls = 3) => last.hooks >= 1

\* the part of C9 that new_init delivers: every constructed instance of a
\* subclass B whose construction runs the constructor of the bound class (B
\* defines no __init__, or its __init__ calls the one it inherits) has run,
\* helper and extra wrapped, once each, whether or not B overrides run.
C9_ChainedSubclassInstanceWrapped ==
    InstanceBound(NoCfg) =>
        /\ \A oid \in DOMAIN objs :
              (objs[oid].cls = 3 /\ Chains(3)) =>
                  \A n \in {"run", "helper", "extra"} : Hooked(oid, n) = 1
        /\ (last.op = "call" /\ last.cls = 3 /\ Chains(3)) => last.hooks = 1
        /\ (last.op = "new" /\ last.cls = 3 /\ Chains(3)) =>
              /\ last.err = "" /\ last.ran
              /\ last.names = <<"extra", "helper", "run">>

C9_Witness ==
    /\ InstanceBound(NoCfg)
    /\ Len(classes) = 3
    /\ classes[3].init = UserInit(TRUE)
    /\ "run" \in DOMAIN classes[3].dict
    /\ last.op = "call" /\ last.cls = 3 /\ last.name = "extra" /\ last.hooks = 1

\* C10: with a non-empty selection list of names the class has, member
\* discovery raises nothing and yields, in list order, exactly the listed names
\* that are functions or methods of the class (a data attribute is skipped);
\* register_class then wraps those members of the new class and no other, and
\* the new_init of register_instance wraps those and no other on the instance.
C10_SelectionMode ==
    /\ (last.op = "register_class" /\ last.cfg.selGiven /\ last.cfg.sel # <<>>
          /\ Range(last.cfg.sel) \subseteq MemberNames(1))
          => /\ last.err = ""
             /\ last.names = SelectSeq(last.cfg.sel, LAMBDA n : n \in FunctionNames(1))
    /\ \A cfg \in Cfgs :
          (cfg.selGiven /\ cfg.sel # <<>> /\ ClassBound(cfg))
             => \A n \in DOMAIN classes[2].dict :
                   classes[2].dict[n].layers >= 1
                      <=> n \in Range(cfg.sel) \cap FunctionNames(1)
    /\ \A cfg \in Cfgs :
          (cfg.selGiven /\ cfg.sel # <<>> /\ InstanceBound(cfg))
             => /\ \A oid \in DOMAIN objs :
                      DOMAIN objs[oid].dict
                          \subseteq Range(cfg.sel) \cap FunctionNames(objs[oid].cls)
                /\ (last.op = "new" /\ last.cls >= 2 /\ (last.cls = 3 => Chains(3))
                      /\ Range(cfg.sel) \subseteq MemberNames(last.cls))
                      => /\ last.err = "" /\ last.ran
                         /\ last.names = SelectSeq(cfg.sel,
                                LAMBDA n : n \in FunctionNames(last.cls))
                         /\ DOMAIN objs[last.obj].dict
                               = Range(cfg.sel) \cap FunctionNames(last.cls)

C10_Witness ==
    /\ last.op = "register_class"
    /\ last.cfg.selGiven /\ last.cfg.sel = <<"x", "run">>
    /\ last.names = <<"run">>
    /\ Len(classes) = 2
    /\ classes[2].dict["run"].layers = 1
    /\ classes[2].dict["helper"].layers = 0

\* C11: when selection is unset, with deny-list D (empty when exception is unset
\* too), the members wrapped are exactly the function- or method-typed members
\* of the class whose name does not start with "__" and is not in D:
\* exception = ["helper"] wraps run and not helper, both unset wraps run and
\* helper; x (data) and __init__ are never wrapped.
C11_ExceptionMode ==
    /\ (last.op = "register_class" /\ ~last.cfg.selGiven)
          => /\ last.err = ""
             /\ Range(last.names) = FunctionNames(1) \ Range(last.cfg.exc)
    /\ \A cfg \in Cfgs :
          (~cfg.selGiven /\ ClassBound(cfg))
             => \A n \in DOMAIN classes[2].dict :
                   classes[2].dict[n].layers
                      = (IF n \in FunctionNames(1) \ Range(cfg.exc) THEN 1 ELSE 0)
    /\ \A cfg \in Cfgs :
          (~cfg.selGiven /\ InstanceBound(cfg)
             /\ last.op = "new" /\ last.cls >= 2 /\ (last.cls = 3 => Chains(3)))
             => /\ last.err = "" /\ last.ran
                /\ DOMAIN objs[last.obj].dict = FunctionNames(last.cls) \ Range(cfg.exc)
                /\ \A n \in DOMAIN objs[last.obj].dict : objs[last.obj].dict[n].layers = 1

C11_Witness ==
    /\ ClassBound(ExcCfg(<<"helper">>))
    /\ classes[1].init.k = "user"
    /\ classes[2].dict["run"].layers = 1
    /\ classes[2].dict["helper"].layers = 0
    /\ last.op = "call" /\ last.cls = 2 /\ last.name = "run" /\ last.hooks = 1

\* C12: whenever selection is a list (not None), register_class and
\* register_instance wrap only the methods named in it: also when exception is
\* given as well, and when selection is the empty list (nothing is wrapped).
C12_SelectionOnly ==
    \A cfg \in Cfgs :
        cfg.selGiven =>
            /\ ClassBound(cfg) =>
                  \A n \in DOMAIN classes[2].dict :
                      classes[2].dict[n].layers >= 1 => n \in Range(cfg.sel)
            /\ InstanceBound(cfg) =>
                  \A oid \in DOMAIN objs : DOMAIN objs[oid].dict \subseteq Range(cfg.sel)

\* the part of C12 that _filter delivers: a non-empty selection list decides
\* alone, whatever exception is
C12_NonEmptySelectionOnly ==
    \A cfg \in Cfgs :
        (cfg.selGiven /\ cfg.sel # <<>>) =>
            /\ ClassBound(cfg) =>
                  \A n \in DOMAIN classes[2].dict :
                      classes[2].dict[n].layers >= 1 => n \in Range(cfg.sel)
            /\ InstanceBound(cfg) =>
                  \A oid \in DOMAIN objs : DOMAIN objs[oid].dict \subseteq Range(cfg.sel)

\* C13: handing a non-callable object to any of the three function-binding
\* forms fails at decoration with an error: no wrapped callable comes back, so
\* no call of one exists and no hook runs around a non-callable target.
C13_NonCallableRejected ==
    /\ (last.op = "register" /\ last.fn \in NonCallables) => last.err = "TypeError"
    /\ \A i \in DOMAIN frames : frames[i].func \in Funcs

\* the part of C13 that the code delivers: Advice.register and
\* FunctionLifeCycle.register refuse a non-callable target
C13_CheckedFormsReject ==
    /\ (last.op = "register" /\ last.fn \in NonCallables /\ last.form # "gen")
          => last.err = "TypeError"
    /\ \A i \in DOMAIN frames : frames[i].form # "gen" => frames[i].func \in Funcs

\* what Advice.register gives for target f bound with throw, when before
\* returns, the target ends with res, the failure hook leaves context.throw at
\* finalThrow and after raises or not: the statements of Advice._life_cycle
\* put one after the other
AdviceRun(f, throw, res, finalThrow, afterRaises) ==
    LET c0 == RunBefore(Context("advice", f, throw))
        c1 == IF res.kind = "ret"
              THEN AfterReturning(OnReturn(c0, res.val), FALSE)
              ELSE AfterThrowing(SetThrow(OnRaise(c0, res.val),
                                          IF finalThrow THEN "True" ELSE "False"),
                                 FALSE)
    IN  Finally(c1, afterRaises)

C15_State ==
    /\ Len(classes) >= 1 =>
          /\ classes[1].how = "declared"
          /\ \A n \in DOMAIN classes[1].dict : classes[1].dict[n].layers = 0
    /\ \A oid \in DOMAIN objs :
          /\ objs[oid].cls = 1 =>
                /\ objs[oid].dict = <<>>
                /\ \A n \in FunctionNames(1) : Hooked(oid, n) = 0
          /\ \A n \in DOMAIN objs[oid].dict : objs[oid].dict[n].self = oid
    /\ last.op = "call" => last.self = last.obj
    /\ (last.op = "call" /\ last.cls = 1) => last.hooks = 0

C15_Step ==
    /\ \A c \in DOMAIN classes : c \in DOMAIN classes' /\ classes'[c] = classes[c]
    /\ \A oid \in DOMAIN objs : oid \in DOMAIN objs' /\ objs'[oid] = objs[oid]
    /\ Len(classes') <= Len(classes) + 1
    /\ Len(objs') <= Len(objs) + 1

C15_FrameEffect == []C15_State /\ [][C15_Step]_vars

C15_Witness ==
    /\ \E cfg \in Cfgs : InstanceBound(cfg)
    /\ Len(objs) = 2
    /\ objs[1].cls = 1 /\ objs[2].cls = 3
    /\ DOMAIN objs[2].dict = {"extra", "helper", "run"}
    /\ last.op = "call" /\ last.obj = 2 /\ last.self = 2 /\ last.hooks = 1

\* C16: in every state of a call (Advice, generator hook): until the target has
\* completed context.success is unset, neither True nor False, and result and
\* exception are unset; once it has completed exactly one of result and
\* exception is set, result iff success is True, exception iff success is False.
C16_TriState ==
    \A i \in DOMAIN frames :
        LET fr == frames[i] IN
        fr.form # "flc" =>
            /\ fr.res.kind = "none" =>
                  /\ fr.success \notin BOOLEAN
                  /\ fr.result = None /\ fr.exception = None
            /\ fr.res.kind # "none" =>
                  /\ fr.success \in BOOLEAN
                  /\ fr.success <=> (fr.result # None /\ fr.exception = None)
                  /\ ~fr.success <=> (fr.result = None /\ fr.exception # None)

\* C16 with the two-valued flag of Context: until the target has completed
\* success is False and result and exception are None; once it has returned v,
\* success is True, result is v and exception None; once it has raised E,
\* success is False, exception is E and result None.
C16_TwoValuedFlag ==
    \A i \in DOMAIN frames :
        LET fr == frames[i] IN
        fr.form # "flc" =>
            /\ fr.res.kind = "none" =>
                  fr.success = FALSE /\ fr.result = None /\ fr.exception = None
            /\ fr.res.kind = "ret" =>
                  fr.success = TRUE /\ fr.result = fr.res.val /\ fr.exception = None
            /\ fr.res.kind = "raise" =>
                  fr.success = FALSE /\ fr.exception = fr.res.val /\ fr.result = None

C16_Witness ==
    /\ Len(frames) = 2
    /\ frames[1].form = "advice" /\ frames[1].pc = "run"
    /\ frames[1].success = FALSE /\ frames[1].result = None
    /\ frames[2].form = "gen" /\ frames[2].pc = "after"
    /\ frames[2].success = TRUE /\ frames[2].result = "v1" /\ frames[2].exception = None

\* C17: for every class C and every name member discovery yields for C (also a
\* method C inherits without redefining it, a static method, a class method),
\* register_class completes without error and the new class holds that member
\* wrapped.
C17_DiscoveredMembersWrapped ==
    last.op = "register_class" =>
        /\ last.err \in {"", "AttributeError"}
        /\ last.err = "" =>
              \A n \in Range(last.names) :
                  /\ n \in DOMAIN classes[last.cls].dict
                  /\ classes[last.cls].dict[n].layers >= 1

\* the part of C17 that register_class delivers: when every name discovery
\* yields is a plain function of C's own class body, it completes and the new
\* class holds each wrapped; otherwise it raises KeyError (a name C inherits)
\* or TypeError (a staticmethod or classmethod) and returns no class
C17_OwnFunctionsWrapped ==
    (last.op = "register_class" /\ last.err # "AttributeError") =>
        LET own == {n \in DOMAIN classes[2].dict : classes[2].dict[n].k = "func"}
        IN  IF Range(last.names) \subseteq own
            THEN /\ last.err = "" /\ last.cls = 3
                 /\ \A n \in Range(last.names) : classes[3].dict[n].layers >= 1
            ELSE last.err \in {"KeyError", "TypeError"} /\ Len(classes) = 2

\* C18: context.throw is read only after a failure.  A call whose target
\* returned gives the result whatever throw is; a call whose target raised E
\* raises E or returns None by the value context.throw has once the failure
\* hook has run, so a hook that sets it to False suppresses the error of that
\* call; every new call starts from the throw given at binding (the generator
\* hook of the demo assigns it first thing), whatever earlier calls wrote.
C18_State ==
    \A i \in DOMAIN frames :
        LET fr == frames[i] IN
        /\ (Closed(fr) /\ NoHookRaised(fr) /\ TargetReturned(fr)) => fr.out = Ret(fr.res.val)
        /\ (Closed(fr) /\ NoHookRaised(fr) /\ TargetRaised(fr))
              => fr.out = (IF fr.throw THEN Raise(fr.res.val) ELSE Ret(None))
        /\ fr.pc = "before" => fr.throw = (IF fr.form = "gen" THEN TRUE ELSE fr.bthrow)
        /\ (fr.form = "gen" /\ fr.pc = "run") => fr.throw = fr.bthrow
        /\ fr.form = "flc" => fr.throw = fr.bthrow

C18_Step ==
    /\ \A i \in DOMAIN frames' \ DOMAIN frames :
          /\ frames'[i].pc = "before"
          /\ frames'[i].throw = (IF frames'[i].form = "gen" THEN TRUE ELSE frames'[i].bthrow)
    /\ \A i \in DOMAIN frames \cap DOMAIN frames' :
          i # Len(frames) => frames'[i].throw = frames[i].throw

C18_ThrowReadAfterFailure == []C18_State /\ [][C18_Step]_vars

C18_Witness ==
    /\ Len(frames) = 2
    /\ frames[1].form = "advice" /\ frames[1].bthrow /\ frames[1].throw
    /\ frames[2].form = "advice" /\ Closed(frames[2])
    /\ frames[2].bthrow /\ ~frames[2].throw
    /\ frames[2].res = Raise("E1") /\ frames[2].out = Ret(None)
    /\ frames[2].raised = {}

\* C19: every call of a wrapped callable, nested, recursive or made by another
\* thread through the same hook object, has a context of its own: a step
\* creates one new blank context, or writes to the context of the call that
\* takes the step (the innermost call of its thread), or removes the context of
\* a call that ended; no other context changes, and while an inner call runs,
\* fails or succeeds the outer call's context keeps its own target and a blank
\* outcome.
C19_State ==
    \A i \in DOMAIN frames :
        LET fr == frames[i] IN
        /\ (\E j \in DOMAIN frames : j > i /\ frames[j].thread = fr.thread)
              => /\ fr.pc = "run"
                 /\ <<fr.success, fr.result, fr.exception>> = <<FALSE, None, None>>
        /\ fr.func = ThreadFunc(fr.thread)
        /\ fr.res.kind = "ret"
              => <<fr.success, fr.result, fr.exception>>
                    = <<TRUE, ThreadValue(fr.thread), None>>
        /\ fr.res.kind = "raise"
              => <<fr.success, fr.result, fr.exception>>
                    = <<FALSE, None, ThreadExc(fr.thread)>>
        /\ fr.seen.result \in {None, ThreadValue(fr.thread)}
        /\ fr.seen.exception \in {None, ThreadExc(fr.thread)}

C19_Step ==
    \/ /\ Len(frames') = Len(frames) + 1
       /\ SubSeq(frames', 1, Len(frames)) = frames
       /\ LET fr == frames'[Len(frames')]
          IN  /\ fr.pc = "before"
              /\ <<fr.success, fr.result, fr.exception>> = <<FALSE, None, None>>
    \/ \E k \in DOMAIN frames :
          /\ k = TopOf(frames[k].thread)
          /\ Closed(frames[k])
          /\ frames' = RemoveAt(frames, k)
    \/ \E k \in DOMAIN frames :
          /\ k = TopOf(frames[k].thread)
          /\ DOMAIN frames' = DOMAIN frames
          /\ frames' = [frames EXCEPT ![k] = frames'[k]]
          /\ frames'[k].func = frames[k].func
          /\ frames'[k].thread = frames[k].thread
    \/ UNCHANGED frames

C19_OwnContext == []C19_State /\ [][C19_Step]_vars

C19_Witness ==
    /\ Len(frames) = 2
    /\ frames[1].thread = "t1" /\ frames[2].thread = "t2"
    /\ frames[1].form = "advice" /\ frames[1].pc = "after"
    /\ frames[1].success = TRUE /\ frames[1].result = "v1"
    /\ frames[2].form = "gen" /\ frames[2].pc = "throwing"
    /\ frames[2].success = FALSE /\ frames[2].exception = "E2"

\* C20: if the before step (before, or the pre-yield code of a generator hook)
\* raises, the target is not invoked, none of returning, throwing and after
\* runs for that call, success, result and exception are never written, and
\* the hook's error reaches the caller, also when throw is False.
C20_BeforeRaises ==
    \A i \in DOMAIN frames :
        LET fr == frames[i] IN
        "before" \in fr.raised =>
            /\ Closed(fr)
            /\ fr.trace = <<"before">>
            /\ fr.res = NoOutcome
            /\ fr.seen = NoSeen
            /\ <<fr.success, fr.result, fr.exception>> = <<FALSE, None, None>>
            /\ fr.out = Raise(HookErr("before"))

C20_Witness ==
    /\ Len(frames) = 2
    /\ frames[1].pc = "run"
    /\ frames[2].form = "gen" /\ ~frames[2].bthrow
    /\ frames[2].raised = {"before"}
    /\ frames[2].out = Raise(HookErr("before"))
    /\ stack = <<frames[1].func>>

\* C21: hooks cannot change the value the caller receives: when the target
\* returned v (and no hook raised) the caller gets v, and when the target
\* raised and context.throw is False the caller gets None, whatever the hooks
\* assigned to context.result, with Advice.register and with the module-level
\* register alike (hook functions that suspend once).
C21_HooksCannotChangeValue ==
    \A i \in DOMAIN frames :
        LET fr == frames[i] IN
        (Closed(fr) /\ NoHookRaised(fr) /\ fr.yields = 1) =>
            /\ TargetReturned(fr) => fr.out = Ret(fr.res.val)
            /\ (TargetRaised(fr) /\ ~fr.throw) => fr.out = Ret(None)

\* the part of C21 that the code delivers: _life_cycle returns its local res,
\* or falls off its end, so the hooks of an Advice cannot change the value
C21_AdviceValueKept ==
    \A i \in DOMAIN frames :
        LET fr == frames[i] IN
        (Closed(fr) /\ NoHookRaised(fr) /\ fr.form = "advice") =>
            /\ TargetReturned(fr) => fr.out = Ret(fr.res.val)
            /\ (TargetRaised(fr) /\ ~fr.throw) => fr.out = Ret(None)

\* a call where a hook's assignment to context.result changed nothing
C21_AdviceWitness ==
    \E i \in DOMAIN frames :
        /\ Closed(frames[i]) /\ NoHookRaised(frames[i])
        /\ frames[i].form = "advice"
        /\ frames[i].result = HookValue
        /\ frames[i].out = Ret("v1")

\* C23: with the module-level register the target runs exactly at the hook
\* function's suspension point: once, after the pre-yield code and before any
\* post-yield code.  A hook function that does not suspend exactly once makes
\* the call end in an error: without a suspension the target is never invoked,
\* with a second suspension the target has run once and the caller gets the
\* error, not the target's outcome.
C23_SingleSuspension ==
    \A i \in DOMAIN frames :
        LET fr == frames[i] IN
        fr.form = "gen" =>
            /\ fr.pc \in {"before", "run"} => fr.seen = NoSeen
            /\ fr.res # NoOutcome => "run" \in Range(fr.trace)
            /\ "run" \in Range(fr.trace) =>
                  /\ IsPrefix(<<"before", "run">>, fr.trace)
                  /\ Count(fr.trace, "run") = 1
                  /\ fr.yields # 0
            /\ (Closed(fr) /\ NoHookRaised(fr) /\ fr.yields = 1) =>
                  /\ fr.trace = Expected(fr)
                  /\ fr.out # Raise("RuntimeError")
            /\ (Closed(fr) /\ NoHookRaised(fr) /\ fr.yields = 0) =>
                  /\ fr.trace = <<"before">>
                  /\ fr.res = NoOutcome
                  /\ fr.out = Raise("RuntimeError")
            /\ (Closed(fr) /\ NoHookRaised(fr) /\ fr.yields = 2) =>
                  /\ Count(fr.trace, "run") = 1
                  /\ fr.res # NoOutcome
                  /\ fr.out = Raise("RuntimeError")

\* a hook function that yields twice, called by a target whose own hook
\* function yields once: the inner target returned v1 and the call ended in the
\* error
C23_Witness ==
    /\ Len(frames) = 2
    /\ frames[1].form = "gen" /\ frames[1].yields = 1 /\ frames[1].pc = "run"
    /\ frames[2].form = "gen" /\ frames[2].yields = 2
    /\ Closed(frames[2]) /\ NoHookRaised(frames[2])
    /\ frames[2].res = Ret("v1")
    /\ frames[2].trace = <<"before", "run", "returning">>
    /\ frames[2].out = Raise("RuntimeError")

\* how many new_init run when the __init__ of class c runs
RECURSIVE NewInits(_, _)
NewInits(cs, c) ==
    IF c = 0
    THEN 0
    ELSE CASE cs[c].init.k = "none" -> NewInits(cs, cs[c].base)
           [] cs[c].init.k = "user" ->
                 IF cs[c].init.super THEN NewInits(cs, cs[c].base) ELSE 0
           [] OTHER -> 1 + NewInits(cs, cs[c].base)

\* C22: instance binding wraps each selected method exactly one layer deep:
\* after any sequence of constructor runs on an object (one construction, the
\* construction of an instance-bound subclass of an instance-bound class, the
\* constructor run again on the object), every method that was wrapped on the
\* object runs before, returning or throwing, and after once per call.
C22_OneLayerDeep ==
    /\ \A oid \in DOMAIN objs :
          \A n \in DOMAIN objs[oid].dict : HookRuns(objs[oid].dict[n]) = 1
    /\ (last.op = "call" /\ last.name \in DOMAIN objs[last.obj].dict)
          => last.hooks = 1

\* the part of C22 that new_init delivers: an object whose construction ran
\* one new_init comes out of it with every wrapped method one layer deep
C22_OneNewInitOneLayer ==
    (last.op = "new" /\ last.obj # 0 /\ NewInits(classes, last.cls) = 1) =>
        \A n \in DOMAIN objs[last.obj].dict : HookRuns(objs[last.obj].dict[n]) = 1

\* B, bound by register_instance as a subclass of the instance-bound A: a
\* method of a new object runs the hooks twice
C22_ChainWitness ==
    /\ Len(classes) = 4
    /\ NewInits(classes, 4) = 2
    /\ last.op = "call" /\ last.cls = 4 /\ last.name = "run"
    /\ last.hooks = 2

====
